---- MODULE Spec2Model ----
(***************************************************************************)
(* Model of build/deploy.js: the gulp tasks that build the Docker images   *)
(* of the dashboard and push them to a registry.                           *)
(*                                                                         *)
(* The controlling process is a single-threaded node process: every task   *)
(* function and every 'exit' handler runs to completion, so each is one    *)
(* action.  Promise reactions are microtasks and run before the next event *)
(* is taken, so they are part of the action of the handler that settles    *)
(* the promise.  Child processes and the Dockerfile copy stream advance    *)
(* on their own, in any order.                                             *)
(***************************************************************************)
EXTENDS Integers, Sequences, FiniteSets, TLC

(***************************************************************************)
(* Bounds                                                                  *)
(***************************************************************************)
\* number of architectures of a cross build (length of conf.paths.distCross)
NumArch == 2
\* number of arguments the user passes after `node gulp`
MaxArgs == 3
\* child processes exit with a code in 0..MaxExitCode
MaxExitCode == 2

ExitCodes == 0..MaxExitCode

(***************************************************************************)
(* Strings.  A command line token is a sequence of characters, so that its *)
(* first character can be read; everything built by a template literal is  *)
(* a string.                                                               *)
(***************************************************************************)
RECURSIVE Join(_)
Join(chars) == IF chars = <<>> THEN "" ELSE Head(chars) \o Join(Tail(chars))

Digits == <<"0", "1", "2", "3", "4", "5", "6", "7", "8", "9">>

\* `${n}` for a non-negative integer n
RECURSIVE NumToString(_)
NumToString(n) ==
  IF n < 10 THEN Digits[n + 1] ELSE NumToString(n \div 10) \o Digits[(n % 10) + 1]

(***************************************************************************)
(* Configuration (conf.js), read only.                                     *)
(***************************************************************************)
ConfRepoDocker == "kubernetes"
ConfImageNameBase == "dashboard"
ConfVersionCanary == "canary"
ConfDist == "dist"
ConfDistCross == [i \in 1..NumArch |-> "dist/" \o NumToString(i)]
ConfCanaryImageNames == [i \in 1..NumArch |-> "gcr/dashboard-" \o NumToString(i) \o ":head"]
ConfReleaseImageNames == [i \in 1..NumArch |-> "gcr/dashboard-" \o NumToString(i) \o ":v1"]
ConfCanaryImageName == "gcr/dashboard:head"
ConfReleaseImageName == "gcr/dashboard:v1"
ConfImageName == "gcr/dashboard"
ConfDeployVersionCanary == "head"
ConfDeployVersionRelease == "v1"

(***************************************************************************)
(* Process arguments                                                       *)
(***************************************************************************)
PrKey == <<"-", "-", "p", "r">>
CanaryKey == <<"-", "-", "c", "a", "n", "a", "r", "y">>
\* tokens a user may type: the two keys, PR numbers, another flag, an empty string
PrValues == {<<"4", "2">>, <<"7">>}
Tokens == {PrKey, CanaryKey, <<"-", "v">>, <<>>} \cup PrValues
ArgvPrefix == << <<"n", "o", "d", "e">>, <<"g", "u", "l", "p">> >>

RECURSIVE SeqsUpTo(_, _)
SeqsUpTo(S, n) ==
  IF n = 0 THEN {<<>>}
  ELSE LET shorter == SeqsUpTo(S, n - 1)
       IN shorter \cup {Append(s, x) : s \in {t \in shorter : Len(t) = n - 1}, x \in S}

VARIABLES
  argv,       \* process.argv
  root,       \* the task gulp was asked to run
  task,       \* orchestrator: state of every task
  stopped,    \* orchestrator: a task has failed, no further task is started
  doneCalls,  \* orchestrator: how often each task signalled completion
  procs,      \* child processes in spawn order
  promise,    \* per task: the promise returned by its buildDockerImage call
  copyState,  \* per docker-file task: the Dockerfile stream
  copied      \* per docker-file task: the directories that hold the Dockerfile

vars == <<argv, root, task, stopped, doneCalls, procs, promise, copyState, copied>>

(***************************************************************************)
(* JavaScript values handled by getArg                                     *)
(***************************************************************************)
Null == [kind |-> "null", chars |-> <<>>]
True == [kind |-> "true", chars |-> <<>>]
Undefined == [kind |-> "undefined", chars |-> <<>>]
StringValue(chars) == [kind |-> "string", chars |-> chars]

\* !v is false
Truthy(v) ==
  CASE v.kind = "true" -> TRUE
    [] v.kind = "string" -> Len(v.chars) > 0
    [] OTHER -> FALSE

\* `${v}`
TemplateString(v) ==
  CASE v.kind = "null" -> "null"
    [] v.kind = "true" -> "true"
    [] v.kind = "undefined" -> "undefined"
    [] OTHER -> Join(v.chars)

\* Array.prototype.indexOf, zero based, -1 when absent
IndexOf(list, key) ==
  IF \E i \in 1..Len(list) : list[i] = key
  THEN (CHOOSE i \in 1..Len(list) : list[i] = key /\ \A j \in 1..(i - 1) : list[j] # key) - 1
  ELSE -1

\* list[i] for a zero based i
At(list, i) == IF (i + 1) \in 1..Len(list) THEN StringValue(list[i + 1]) ELSE Undefined

\* a getArg that takes a following flag for the value of the key
getArg_NoFlagTest(key) ==
  LET index == IndexOf(argv, key)
      next == At(argv, index + 1)
  IN IF index < 0 THEN Null
     ELSE IF ~Truthy(next) THEN True
     ELSE next

\* a getArg that reports the presence of the key and never its value
getArg_PresenceOnly(key) == IF IndexOf(argv, key) < 0 THEN Null ELSE True

getArg(key) ==
  LET index == IndexOf(argv, key)
      next == At(argv, index + 1)
  IN IF index < 0 THEN Null
     ELSE IF ~Truthy(next) \/ next.chars[1] = "-" THEN True
     ELSE next

\* a createImageName that looks at the PR number first
createImageName_PrFirst ==
  LET prNumber == getArg(PrKey)
  IN IF Truthy(prNumber)
     THEN ConfRepoDocker \o "/" \o ConfImageNameBase \o ":" \o TemplateString(prNumber)
     ELSE ConfRepoDocker \o "/" \o ConfImageNameBase \o ":" \o ConfVersionCanary

createImageName ==
  LET prNumber == getArg(PrKey)
      isCanary == getArg(CanaryKey)
  IN IF ~Truthy(isCanary)
     THEN ConfRepoDocker \o "/" \o ConfImageNameBase \o ":" \o TemplateString(prNumber)
     ELSE ConfRepoDocker \o "/" \o ConfImageNameBase \o ":" \o ConfVersionCanary

(***************************************************************************)
(* Tasks                                                                   *)
(***************************************************************************)
\* tasks of other build files that the tasks of deploy.js depend on
ExternalTasks == {"clean-dist", "build", "build:cross"}
DockerFileTasks == {"docker-file", "docker-file:cross"}
CallbackImageTasks ==
  {"docker-image:canary", "docker-image:release",
   "docker-image:canary:cross", "docker-image:release:cross"}
ImageTasks == CallbackImageTasks \cup {"docker-image"}
GcrPushTasks == {"push-to-gcr:canary", "push-to-gcr:release"}
PushTasks == GcrPushTasks \cup {"push-to-docker"}
DeployTasks == DockerFileTasks \cup ImageTasks \cup PushTasks
Tasks == ExternalTasks \cup DeployTasks

\* second argument of gulp.task
Deps(t) ==
  CASE t \in {"docker-image:canary", "docker-image:release", "docker-image"} ->
         {"build", "docker-file"}
    [] t \in {"docker-image:canary:cross", "docker-image:release:cross"} ->
         {"build:cross", "docker-file:cross"}
    [] t = "push-to-gcr:canary" -> {"docker-image:canary:cross"}
    [] t = "push-to-gcr:release" -> {"docker-image:release:cross"}
    [] t = "push-to-docker" -> {"docker-image"}
    [] t \in DockerFileTasks -> {"clean-dist"}
    [] OTHER -> {}

RECURSIVE Closure(_)
Closure(ts) ==
  LET more == ts \cup UNION {Deps(t) : t \in ts}
  IN IF more = ts THEN ts ELSE Closure(more)

\* the tasks a run of `gulp r` has to run: r and all it depends on
Needed(r) == Closure({r})

\* number of parameters the task function declares
FnLength(t) == IF t \in DockerFileTasks \cup {"docker-image"} THEN 0 ELSE 1

\* task functions that return nothing
FnReturns_Nothing(t) == "undefined"

\* what the task function returns
FnReturns(t) == IF t = "docker-image" THEN "promise" ELSE "undefined"

\* how gulp learns that a task is finished: from the returned promise, at
\* once when the function neither returns one nor takes a callback, and from
\* the callback otherwise
RunMethod(t) ==
  IF FnReturns(t) = "promise" THEN "promise"
  ELSE IF FnLength(t) = 0 THEN "sync"
  ELSE "callback"

\* argument of dockerFile
OutputDirs(t) ==
  IF t = "docker-file" THEN {ConfDist} ELSE {ConfDistCross[i] : i \in 1..NumArch}

\* a zip that pairs the names with the directories in reverse order
Zip_Reversed(names, dirs) == [i \in 1..Len(names) |-> <<names[i], dirs[Len(dirs) + 1 - i]>>]

\* lodash.zip of two lists of equal length
Zip(names, dirs) == [i \in 1..Len(names) |-> <<names[i], dirs[i]>>]

\* argument of buildDockerImage
ImageNamesAndDirs(t) ==
  CASE t = "docker-image:canary" -> << <<ConfCanaryImageName, ConfDist>> >>
    [] t = "docker-image:release" -> << <<ConfReleaseImageName, ConfDist>> >>
    [] t = "docker-image:canary:cross" -> Zip(ConfCanaryImageNames, ConfDistCross)
    [] t = "docker-image:release:cross" -> Zip(ConfReleaseImageNames, ConfDistCross)
    [] OTHER -> << <<createImageName, ConfDist>> >>

(***************************************************************************)
(* Child processes                                                         *)
(***************************************************************************)
NoError == [isError |-> FALSE, message |-> ""]
Error(message) == [isError |-> TRUE, message |-> message]

\* an 'exit' handler that does not look at the code
ExitResult_NoCheck(prefix, code) == NoError

\* the body of the three 'exit' handlers: the argument doneFn is called with
ExitResult(prefix, code) ==
  IF code = 0 THEN NoError ELSE Error(prefix \o " command error, code: " \o NumToString(code))

Spawned(t, cmd, prefix, args) ==
  [owner |-> t, cmd |-> cmd, prefix |-> prefix, args |-> args,
   exited |-> FALSE, code |-> 0, doneFnCalls |-> 0, doneFnArg |-> NoError]

\* a buildDockerImage that spawns the build of its first target only
BuildProcs_FirstOnly(t, imageNamesAndDirs) ==
  [i \in 1..1 |->
     Spawned(t, "docker", "Docker",
             <<"build", "--rm=true", "--tag", imageNamesAndDirs[i][1], imageNamesAndDirs[i][2]>>)]

\* the child processes buildDockerImage spawns, in map order
BuildProcs(t, imageNamesAndDirs) ==
  [i \in 1..Len(imageNamesAndDirs) |->
     Spawned(t, "docker", "Docker",
             <<"build", "--rm=true", "--tag", imageNamesAndDirs[i][1], imageNamesAndDirs[i][2]>>)]

\* the child process pushToGcr spawns
GcrProc(t, version) ==
  Spawned(t, "gcloud", "gcloud", <<"docker", "push", ConfImageName \o ":" \o version>>)

\* a pushToDocker that always pushes the canary image
DockerPushProc_Canary(t, imageName) ==
  Spawned(t, "docker", "docker",
          <<"push", ConfRepoDocker \o "/" \o ConfImageNameBase \o ":" \o ConfVersionCanary>>)

\* the child process pushToDocker spawns
DockerPushProc(t, imageName) == Spawned(t, "docker", "docker", <<"push", imageName>>)

IsBuild(p) == p.cmd = "docker" /\ p.args[1] = "build"
IsPush(p) == ~IsBuild(p)
ProcsOf(t) == {i \in 1..Len(procs) : procs[i].owner = t}

(***************************************************************************)
(* Promises                                                                *)
(***************************************************************************)
NoPromise == [state |-> "none", reason |-> NoError]
Pending == [state |-> "pending", reason |-> NoError]
Fulfilled == [state |-> "fulfilled", reason |-> NoError]
Rejected(err) == [state |-> "rejected", reason |-> err]

\* the promise buildDockerImage creates around one spawnDockerProcess call
SpawnPromise(p) ==
  IF p.doneFnCalls = 0 THEN Pending
  ELSE IF p.doneFnArg.isError THEN Rejected(p.doneFnArg)
  ELSE Fulfilled

\* a join whose reason is that of the latest child that rejects
PromiseAll_LastRejection(prev, children, i) ==
  IF children[i].state = "rejected" THEN children[i]
  ELSE IF prev.state # "pending" THEN prev
  ELSE IF \A j \in DOMAIN children : children[j].state = "fulfilled" THEN Fulfilled
  ELSE prev

\* a join that is fulfilled as soon as one child is
PromiseAll_FirstFulfilled(prev, children, i) ==
  IF prev.state # "pending" THEN prev
  ELSE IF children[i].state = "rejected" THEN children[i]
  ELSE Fulfilled

\* Promise.all(children), seen when child i has just settled: rejected with
\* the reason of the first child that rejects, fulfilled once all are
PromiseAll(prev, children, i) ==
  IF prev.state # "pending" THEN prev
  ELSE IF children[i].state = "rejected" THEN children[i]
  ELSE IF \A j \in DOMAIN children : children[j].state = "fulfilled" THEN Fulfilled
  ELSE prev

(***************************************************************************)
(* Initial state: gulp has been started and no task has run yet.  Only the *)
(* tasks that call createImageName read the arguments, so only their runs  *)
(* are given arguments.                                                    *)
(***************************************************************************)
NamingTasks == {"docker-image", "push-to-docker"}

Init ==
  /\ root \in DeployTasks
  /\ argv \in IF root \in NamingTasks
              THEN {ArgvPrefix \o a : a \in SeqsUpTo(Tokens, MaxArgs)}
              ELSE {ArgvPrefix}
  /\ task = [t \in Tasks |-> "pending"]
  /\ stopped = FALSE
  /\ doneCalls = [t \in Tasks |-> 0]
  /\ procs = <<>>
  /\ promise = [t \in ImageTasks |-> NoPromise]
  /\ copyState = [t \in DockerFileTasks |-> "idle"]
  /\ copied = [t \in DockerFileTasks |-> {}]

(***************************************************************************)
(* The orchestrator of gulp                                                *)
(***************************************************************************)
\* a task is started once all its dependencies are done, unless a task failed
Startable(t) ==
  /\ ~stopped
  /\ t \in Needed(root)
  /\ task[t] = "pending"
  /\ \A d \in Deps(t) : task[d] = "succeeded"

\* the task function has returned
Started(t) ==
  /\ task' = [task EXCEPT ![t] = IF RunMethod(t) = "sync" THEN "succeeded" ELSE "running"]
  /\ doneCalls' = [doneCalls EXCEPT ![t] = IF RunMethod(t) = "sync" THEN @ + 1 ELSE @]
  /\ UNCHANGED stopped

\* the task has signalled its end; an error stops the run
Finished(t, err) ==
  /\ task' = [task EXCEPT ![t] = IF err.isError \/ doneCalls[t] > 0 THEN "failed" ELSE "succeeded"]
  /\ doneCalls' = [doneCalls EXCEPT ![t] = @ + 1]
  /\ stopped' = (stopped \/ err.isError \/ doneCalls[t] > 0)

(***************************************************************************)
(* Actions                                                                 *)
(***************************************************************************)
StartExternal(t) ==
  /\ t \in ExternalTasks
  /\ Startable(t)
  /\ task' = [task EXCEPT ![t] = "running"]
  /\ UNCHANGED <<argv, root, stopped, doneCalls, procs, promise, copyState, copied>>

ExternalDone(t, ok) ==
  /\ t \in ExternalTasks
  /\ task[t] = "running"
  /\ Finished(t, IF ok THEN NoError ELSE Error("task failed"))
  /\ UNCHANGED <<argv, root, procs, promise, copyState, copied>>

\* gulp.task('docker-file') and gulp.task('docker-file:cross')
StartDockerFile(t) ==
  /\ t \in DockerFileTasks
  /\ Startable(t)
  /\ copyState' = [copyState EXCEPT ![t] = "running"]
  /\ Started(t)
  /\ UNCHANGED <<argv, root, procs, promise, copied>>

\* the stream of dockerFile writes the Dockerfile into one more directory
CopyDockerfile(t, dir) ==
  /\ t \in DockerFileTasks
  /\ copyState[t] = "running"
  /\ dir \in OutputDirs(t) \ copied[t]
  /\ copied' = [copied EXCEPT ![t] = @ \cup {dir}]
  /\ copyState' = [copyState EXCEPT ![t] = IF copied'[t] = OutputDirs(t) THEN "done" ELSE "running"]
  /\ UNCHANGED <<argv, root, task, stopped, doneCalls, procs, promise>>

\* the stream of dockerFile ends with an error
CopyFails(t) ==
  /\ t \in DockerFileTasks
  /\ copyState[t] = "running"
  /\ copyState' = [copyState EXCEPT ![t] = "failed"]
  /\ UNCHANGED <<argv, root, task, stopped, doneCalls, procs, promise, copied>>

\* gulp.task('docker-image...'): buildDockerImage spawns every build
StartDockerImage(t) ==
  /\ t \in ImageTasks
  /\ Startable(t)
  /\ procs' = procs \o BuildProcs(t, ImageNamesAndDirs(t))
  /\ promise' = [promise EXCEPT ![t] = Pending]
  /\ Started(t)
  /\ UNCHANGED <<argv, root, copyState, copied>>

\* gulp.task('push-to-gcr:...') and gulp.task('push-to-docker')
StartPush(t) ==
  /\ t \in PushTasks
  /\ Startable(t)
  /\ procs' = Append(procs,
                CASE t = "push-to-gcr:canary" -> GcrProc(t, ConfDeployVersionCanary)
                  [] t = "push-to-gcr:release" -> GcrProc(t, ConfDeployVersionRelease)
                  [] OTHER -> DockerPushProc(t, createImageName))
  /\ Started(t)
  /\ UNCHANGED <<argv, root, promise, copyState, copied>>

\* the process has exited and its 'exit' handler has called doneFn
Exited(p, code) ==
  [p EXCEPT !.exited = TRUE, !.code = code, !.doneFnCalls = @ + 1,
            !.doneFnArg = ExitResult(p.prefix, code)]

\* an exit with a code other than 0 after which the builds of the same call
\* that are still running are killed
AfterExit_KillSiblings(ps, i, code) ==
  [j \in DOMAIN ps |->
     IF j = i THEN Exited(ps[j], code)
     ELSE IF code # 0 /\ ps[j].owner = ps[i].owner /\ ~ps[j].exited THEN Exited(ps[j], MaxExitCode)
     ELSE ps[j]]

\* the child processes after process i has exited: no other process is touched
AfterExit(ps, i, code) == [ps EXCEPT ![i] = Exited(@, code)]

\* a `docker build` exits: the handler of spawnDockerProcess settles the
\* promise of this build, and with it possibly the promise of the task
BuildExits(i, code) ==
  /\ i \in 1..Len(procs)
  /\ IsBuild(procs[i])
  /\ ~procs[i].exited
  /\ procs' = AfterExit(procs, i, code)
  /\ LET t == procs[i].owner
         mine == {j \in 1..Len(procs) : procs[j].owner = t}
         children == [j \in mine |-> SpawnPromise(procs'[j])]
         all == PromiseAll(promise[t], children, i)
     IN /\ promise' = [promise EXCEPT ![t] = all]
        /\ IF FnReturns(t) = "promise" /\ promise[t].state = "pending" /\ all.state # "pending"
           THEN Finished(t, all.reason)
           ELSE UNCHANGED <<task, stopped, doneCalls>>
  /\ UNCHANGED <<argv, root, copyState, copied>>

\* a push exits: the handler of pushToGcr or pushToDocker calls the task's doneFn
PushExits(i, code) ==
  /\ i \in 1..Len(procs)
  /\ IsPush(procs[i])
  /\ ~procs[i].exited
  /\ procs' = AfterExit(procs, i, code)
  /\ Finished(procs[i].owner, procs'[i].doneFnArg)
  /\ UNCHANGED <<argv, root, promise, copyState, copied>>

Next ==
  \/ \E t \in Tasks : StartExternal(t)
  \/ \E t \in Tasks, ok \in BOOLEAN : ExternalDone(t, ok)
  \/ \E t \in Tasks : StartDockerFile(t)
  \/ \E t \in Tasks, dir \in {ConfDist} \cup {ConfDistCross[i] : i \in 1..NumArch} :
       CopyDockerfile(t, dir)
  \/ \E t \in Tasks : CopyFails(t)
  \/ \E t \in Tasks : StartDockerImage(t)
  \/ \E t \in Tasks : StartPush(t)
  \/ \E i \in 1..(NumArch + 1), code \in ExitCodes : BuildExits(i, code)
  \/ \E i \in 1..(NumArch + 1), code \in ExitCodes : PushExits(i, code)

Spec == Init /\ [][Next]_vars

\* nothing is left to happen: no task can start, nothing is in flight
Quiescent ==
  /\ \A t \in Tasks : ~Startable(t)
  /\ \A t \in ExternalTasks : task[t] # "running"
  /\ \A t \in DockerFileTasks : copyState[t] # "running"
  /\ \A i \in 1..Len(procs) : procs[i].exited

(***************************************************************************)
(* Properties                                                              *)
(***************************************************************************)
\* the image reference a process builds or pushes
ImageRef(p) == p.args[Len(p.args) - (IF IsBuild(p) THEN 1 ELSE 0)]
ExitedWith(i) == procs[i].exited /\ procs[i].code = 0
ExitedFailing(i) == procs[i].exited /\ procs[i].code # 0

\* C1: the promise of buildDockerImage is fulfilled exactly when every build
\* process has exited with code 0, and rejected exactly when at least one
\* build process has exited with a code other than 0.
C1_FanIn ==
  \A t \in ImageTasks :
    promise[t].state # "none" =>
      /\ ProcsOf(t) # {}
      /\ promise[t].state = "fulfilled" <=> \A i \in ProcsOf(t) : ExitedWith(i)
      /\ promise[t].state = "rejected" <=> \E i \in ProcsOf(t) : ExitedFailing(i)

\* a fan-out of several builds where one build failed and another succeeded
C1_Witness ==
  \E t \in ImageTasks :
    /\ promise[t].state = "rejected"
    /\ \E i, j \in ProcsOf(t) : ExitedFailing(i) /\ ExitedWith(j)

\* C2: when a `docker build` of a docker-image task is spawned, each task it
\* depends on has succeeded and the docker-file task among them has finished
\* copying the Dockerfile into every one of its output directories.
C2_DependenciesComplete ==
  \A i \in 1..Len(procs) :
    IsBuild(procs[i]) =>
      \A d \in Deps(procs[i].owner) :
        /\ task[d] = "succeeded"
        /\ d \in DockerFileTasks => copyState[d] = "done" /\ copied[d] = OutputDirs(d)

\* C3: once nothing is left in flight, every task that was started has
\* signalled its end exactly once and is succeeded or failed, and a push task
\* whose docker-image task saw all its builds exit with code 0 was started.
C3_StagesTerminate ==
  Quiescent =>
    /\ \A t \in Tasks : task[t] # "pending" => task[t] \in {"succeeded", "failed"} /\ doneCalls[t] = 1
    /\ \A t \in PushTasks \cap Needed(root) :
         (\A d \in Deps(t) : ProcsOf(d) # {} /\ \A i \in ProcsOf(d) : ExitedWith(i))
           => task[t] # "pending"

\* C4: no build is spawned by a docker-image task whose docker-file task has
\* failed, and no push is spawned by a push task whose docker-image task has
\* failed or has a build that exited with a code other than 0.
C4_NoRunOnFailedDependency ==
  \A i \in 1..Len(procs) :
    \A d \in Deps(procs[i].owner) :
      /\ task[d] # "failed"
      /\ d \in DockerFileTasks => copyState[d] # "failed"
      /\ d \in ImageTasks => \A j \in ProcsOf(d) : ~ExitedFailing(j)

\* the complete image names of the two channels of createImageName
CanaryTagged == ConfRepoDocker \o "/" \o ConfImageNameBase \o ":" \o ConfVersionCanary
PrTagged(v) == ConfRepoDocker \o "/" \o ConfImageNameBase \o ":" \o Join(v)

Has(key) == \E k \in 1..Len(argv) : argv[k] = key
\* the first --pr is followed by the PR number v
HasPr(v) ==
  \E k \in 1..(Len(argv) - 1) :
    /\ argv[k] = PrKey
    /\ \A j \in 1..(k - 1) : argv[j] # PrKey
    /\ argv[k + 1] = v
\* the processes whose image reference comes from createImageName
Named == {i \in 1..Len(procs) : procs[i].owner \in NamingTasks}

\* C5: without --pr and without --canary among the arguments, the image
\* reference made by createImageName is the canary-tagged name.
C5_DefaultCanary ==
  (~Has(PrKey) /\ ~Has(CanaryKey)) => \A i \in Named : ImageRef(procs[i]) = CanaryTagged

\* C6 as stated: with --pr <number> and --canary among the arguments, the
\* image reference made by createImageName is the PR-tagged name.
C6_PrPrecedence ==
  \A v \in PrValues :
    (HasPr(v) /\ Has(CanaryKey)) => \A i \in Named : ImageRef(procs[i]) = PrTagged(v)

\* C6 amended: with --pr <number> and --canary among the arguments, the
\* image reference made by createImageName is the canary-tagged name.
C6_CanaryPrecedence ==
  \A v \in PrValues :
    (HasPr(v) /\ Has(CanaryKey)) => \A i \in Named : ImageRef(procs[i]) = CanaryTagged

\* a build was named while both --pr 42 and --canary were given
C6_Witness ==
  /\ HasPr(<<"4", "2">>)
  /\ Has(CanaryKey)
  /\ \E i \in Named : IsBuild(procs[i])

\* C7: with --pr v for a PR number v and without --canary, the image
\* reference made by createImageName is {repo}/{base}:v.
C7_PrTagged ==
  \A v \in PrValues :
    (HasPr(v) /\ ~Has(CanaryKey)) => \A i \in Named : ImageRef(procs[i]) = PrTagged(v)

\* a build was tagged kubernetes/dashboard:42 from `--pr 42`
C7_Witness ==
  /\ HasPr(<<"4", "2">>)
  /\ ~Has(CanaryKey)
  /\ \E i \in Named : IsBuild(procs[i]) /\ ImageRef(procs[i]) = "kubernetes/dashboard:42"

\* C8: a push-to-gcr task never pushes a reference its docker-image task did
\* not build, and once nothing is left in flight after all the builds exited
\* with code 0 it has spawned one push for each image built.
C8_PushPerImage ==
  \A t \in GcrPushTasks \cap Needed(root) :
    \A d \in Deps(t) :
      LET built == {ImageRef(procs[i]) : i \in ProcsOf(d)}
          pushed == {ImageRef(procs[i]) : i \in ProcsOf(t)}
      IN /\ pushed \subseteq built
         /\ (Quiescent /\ ProcsOf(d) # {} /\ \A i \in ProcsOf(d) : ExitedWith(i))
              => Cardinality(ProcsOf(t)) = Cardinality(ProcsOf(d)) /\ pushed = built

\* C9: whenever a push process exists, every build of the docker-image task
\* its task depends on has exited with code 0.
C9_PushAfterBuilds ==
  \A i \in 1..Len(procs) :
    IsPush(procs[i]) =>
      \A d \in Deps(procs[i].owner) :
        ProcsOf(d) # {} /\ \A j \in ProcsOf(d) : ExitedWith(j)

\* a push has been spawned
C9_Witness == \E i \in 1..Len(procs) : IsPush(procs[i])

\* C10: doneFn of a process has been called once if the process has exited
\* and not at all before; it was called without an error if the exit code
\* is 0 and otherwise with an error whose message ends with the exit code.
C10_DoneFnOnce ==
  \A i \in 1..Len(procs) :
    LET p == procs[i]
    IN /\ p.doneFnCalls = (IF p.exited THEN 1 ELSE 0)
       /\ p.exited =>
            /\ p.doneFnArg.isError <=> p.code # 0
            /\ p.code # 0 =>
                 \E name \in {"Docker", "docker", "gcloud"} :
                   p.doneFnArg.message = name \o " command error, code: " \o NumToString(p.code)

\* a build and a push have exited, one of them with a code other than 0
C10_Witness ==
  \E i, j \in 1..Len(procs) :
    /\ IsBuild(procs[i]) /\ ExitedWith(i)
    /\ IsPush(procs[j]) /\ ExitedFailing(j)

\* the name list a cross docker-image task zips with conf.paths.distCross
CrossImageNames(t) ==
  IF t = "docker-image:canary:cross" THEN ConfCanaryImageNames ELSE ConfReleaseImageNames
CrossImageTasks == {"docker-image:canary:cross", "docker-image:release:cross"}

\* C11: the processes spawned by a cross docker-image task are exactly
\* `build --rm=true --tag names[i] distCross[i]` for i = 1..k, one for each
\* index; no name is built from the directory of another index.
C11_PositionalPairing ==
  \A t \in CrossImageTasks :
    promise[t].state # "none" =>
      /\ Cardinality(ProcsOf(t)) = Len(CrossImageNames(t))
      /\ {procs[i].args : i \in ProcsOf(t)} =
           {<<"build", "--rm=true", "--tag", CrossImageNames(t)[k], ConfDistCross[k]>> :
              k \in 1..Len(CrossImageNames(t))}

\* a cross build of several architectures has been spawned
C11_Witness ==
  \E t \in CrossImageTasks : Cardinality(ProcsOf(t)) > 1

\* position in argv of the first occurrence of a key that occurs
FirstPos(key) == CHOOSE k \in 1..Len(argv) : argv[k] = key /\ \A j \in 1..(k - 1) : argv[j] # key
\* the token at position k is missing or begins with '-'
MissingOrFlag(k) == k > Len(argv) \/ (argv[k] # <<>> /\ argv[k][1] = "-")

\* C12 as stated: getArg(key) is null when the key does not occur, true when
\* the token after its first occurrence is missing or begins with '-', and
\* that token otherwise.
C12_GetArgAsStated ==
  \A key \in Tokens :
    getArg(key) =
      IF ~Has(key) THEN Null
      ELSE IF MissingOrFlag(FirstPos(key) + 1) THEN True
      ELSE StringValue(argv[FirstPos(key) + 1])

\* C12 amended: getArg(key) is null when the key does not occur, true when
\* the token after its first occurrence is missing, is the empty string or
\* begins with '-', and that token otherwise.
C12_GetArg ==
  \A key \in Tokens :
    getArg(key) =
      IF ~Has(key) THEN Null
      ELSE IF MissingOrFlag(FirstPos(key) + 1) \/ argv[FirstPos(key) + 1] = <<>> THEN True
      ELSE StringValue(argv[FirstPos(key) + 1])

\* a name was made from arguments where the first --pr is followed by a flag
C12_Witness ==
  /\ Has(PrKey)
  /\ FirstPos(PrKey) < Len(argv)
  /\ argv[FirstPos(PrKey) + 1] = <<"-", "v">>
  /\ Named # {}

\* C13: in the step in which the first build of a docker-image task exits
\* with a code other than 0, the promise of buildDockerImage is rejected with
\* the error of that process, and a rejected promise never changes again.
C13_FirstFailure ==
  [][\A t \in ImageTasks :
       /\ promise[t].state = "rejected" => promise'[t] = promise[t]
       /\ \A i \in ProcsOf(t) :
            (/\ \A j \in ProcsOf(t) : ~ExitedFailing(j)
             /\ ~procs[i].exited
             /\ procs'[i].exited
             /\ procs'[i].code # 0)
              => promise'[t] =
                   Rejected(Error("Docker command error, code: " \o NumToString(procs'[i].code)))]_vars

\* two builds of one task have failed with different codes
C13_Witness ==
  \E t \in ImageTasks :
    /\ promise[t].state = "rejected"
    /\ \E i, j \in ProcsOf(t) :
         ExitedFailing(i) /\ ExitedFailing(j) /\ procs[i].code # procs[j].code

\* C14: the builds of a docker-image task are all spawned in one step, one
\* for each target, while the task has no process yet: none is spawned
\* after a sibling exists or has exited.
C14_SpawnedTogether ==
  [][\A t \in ImageTasks :
       ProcsOf(t)' # ProcsOf(t) =>
         /\ ProcsOf(t) = {}
         /\ Cardinality(ProcsOf(t)') = Len(ImageNamesAndDirs(t))
         /\ \A i \in ProcsOf(t)' : IsBuild(procs'[i]) /\ ~procs'[i].exited]_vars

\* several builds of one task are in flight and none has exited
C14_Witness ==
  \E t \in ImageTasks :
    /\ Cardinality(ProcsOf(t)) > 1
    /\ \A i \in ProcsOf(t) : ~procs[i].exited

\* the commands deploy.js runs: docker build, docker push, gcloud docker push
BuildOrPush(p) ==
  \/ p.cmd = "docker" /\ p.args[1] \in {"build", "push"}
  \/ p.cmd = "gcloud" /\ p.args[1] = "docker" /\ p.args[2] = "push"
\* the images built by the builds of task t that exited with code 0
Built(t) == {ImageRef(procs[i]) : i \in {j \in ProcsOf(t) : ExitedWith(j)}}

\* C15: once a build of a docker-image task has exited with a code other
\* than 0, a sibling build changes only by its own exit, one process at a
\* step, every process spawned from then on is a build or a push, and the
\* images its siblings have built stay built.
C15_NoCancelNoRollback ==
  [][\A t \in ImageTasks :
       (\E f \in ProcsOf(t)' : procs'[f].exited /\ procs'[f].code # 0) =>
         /\ \A i \in ProcsOf(t) :
              procs'[i] # procs[i] =>
                /\ ~procs[i].exited
                /\ procs'[i] = Exited(procs[i], procs'[i].code)
                /\ \A j \in ProcsOf(t) \ {i} : procs'[j] = procs[j]
         /\ Len(procs') >= Len(procs)
         /\ \A k \in (Len(procs) + 1)..Len(procs') : BuildOrPush(procs'[k])
         /\ Built(t) \subseteq Built(t)']_vars

\* a build has failed while a sibling is still running
C15_Witness ==
  \E t \in ImageTasks :
    \E i, j \in ProcsOf(t) : ExitedFailing(i) /\ ~procs[j].exited

\* C16: with a --pr that has no value (it is the last argument or a flag
\* follows it) and without --canary, the image reference made by
\* createImageName is the canary-tagged name.
C16_DegradesToCanary ==
  (Has(PrKey) /\ MissingOrFlag(FirstPos(PrKey) + 1) /\ ~Has(CanaryKey))
    => \A i \in Named : ImageRef(procs[i]) = CanaryTagged

\* C17: the reference pushed by push-to-docker is the tag built by
\* docker-image in the same run.
C17_PushesWhatWasBuilt ==
  \A i, j \in 1..Len(procs) :
    (procs[i].owner = "push-to-docker" /\ procs[j].owner = "docker-image")
      => IsPush(procs[i]) /\ IsBuild(procs[j]) /\ ImageRef(procs[i]) = ImageRef(procs[j])

\* push-to-docker has pushed an image that was named after a PR
C17_Witness ==
  /\ \E v \in PrValues : HasPr(v) /\ ~Has(CanaryKey)
  /\ \E i \in 1..Len(procs) : procs[i].owner = "push-to-docker" /\ ImageRef(procs[i]) # CanaryTagged

====
